---- MODULE Spec2Model ----
(***************************************************************************)
(* The structural validator of examples/typescript-minimal/src/index.ts:   *)
(* getType, isObject, ValidationError and validate.                        *)
(*                                                                         *)
(* validate is modelled twice from the same lines: as the recursive        *)
(* operator validate(value, schema, path), which yields what one call      *)
(* returns or throws, and as a machine with an explicit call stack that     *)
(* executes one check of the code per step, so that the order of the       *)
(* checks can be observed.                                                 *)
(***************************************************************************)
EXTENDS Integers, Sequences, FiniteSets, TLC

(***************************************************************************)
(* Bounds of the model.                                                    *)
(***************************************************************************)
\* longest array value at the top level
MaxLen == 2
\* longest `required` list of a top-level schema
MaxRequired == 2
\* most calls of validate one library caller makes
MaxCalls == 2
\* most command-line arguments given to main
MaxArgs == 3
\* most handlers of the plugin the loader calls
MaxHandled == 3

(***************************************************************************)
(* JavaScript values.  A value is a record holding what the code can       *)
(* observe of it: the result of typeof, whether it is null, whether        *)
(* Array.isArray holds, its elements and its own properties.               *)
(***************************************************************************)
JNull    == [typeof |-> "object", class |-> "null"]
JString  == [typeof |-> "string"]
JNumber  == [typeof |-> "number"]
JBoolean == [typeof |-> "boolean"]
\* a method inherited from Object.prototype, e.g. ({}).toString
JFunction == [typeof |-> "function"]

mkArray(es) == [typeof |-> "object", class |-> "Array", elems |-> es]
mkObject(f) == [typeof |-> "object", class |-> "Object", own |-> f]

\* value === null
IsNull(v) == v.typeof = "object" /\ v.class = "null"
\* Array.isArray(value)
IsArray(v) == v.typeof = "object" /\ v.class = "Array"

\* The names every plain object inherits from Object.prototype; each of
\* them is bound to a function.
ObjectPrototype == {"toString", "valueOf", "hasOwnProperty", "constructor"}

\* The own keys of an object value.
OwnKeysOf(v) == DOMAIN v.own

\* `key in value`: true for own and for inherited properties.
\* a presence test that also looks at the value: value[key] != null
HasProperty_NotNull(v, key) ==
  (key \in OwnKeysOf(v) /\ v.own[key] # JNull) \/ key \in ObjectPrototype

HasProperty(v, key) == key \in OwnKeysOf(v) \/ key \in ObjectPrototype

\* `value[key]`: own properties shadow inherited ones.
GetProperty(v, key) == IF key \in OwnKeysOf(v) THEN v.own[key] ELSE JFunction

(***************************************************************************)
(* getType (index.ts 76-86).  Throws marks the final throw statement.      *)
(***************************************************************************)
Types == {"object", "array", "string", "number", "boolean", "null"}
Throws == "throws"

\* getType without the test of index.ts 79: typeof null is 'object'
getType_NoNullTest(v) ==
  IF IsArray(v) THEN "array"
  ELSE IF v.typeof = "object" THEN "object"
  ELSE IF v.typeof = "string" THEN "string"
  ELSE IF v.typeof = "number" THEN "number"
  ELSE IF v.typeof = "boolean" THEN "boolean"
  ELSE Throws

\* getType with the test of index.ts 81 ahead of the test of index.ts 80:
\* an array is reported as an object
getType_ObjectFirst(v) ==
  IF IsNull(v) THEN "null"
  ELSE IF v.typeof = "object" THEN "object"
  ELSE IF IsArray(v) THEN "array"
  ELSE IF v.typeof = "string" THEN "string"
  ELSE IF v.typeof = "number" THEN "number"
  ELSE IF v.typeof = "boolean" THEN "boolean"
  ELSE Throws

getType(v) ==
  IF IsNull(v) THEN "null"
  ELSE IF IsArray(v) THEN "array"
  ELSE IF v.typeof = "object" THEN "object"
  ELSE IF v.typeof = "string" THEN "string"
  ELSE IF v.typeof = "number" THEN "number"
  ELSE IF v.typeof = "boolean" THEN "boolean"
  ELSE Throws

\* the message of the Error thrown by getType
UnknownTypeMessage(v) == "Unknown type: " \o v.typeof

\* isObject without its test for null
isObject_NullToo(v) == v.typeof = "object" /\ ~IsArray(v)

\* isObject (index.ts 89-91)
isObject(v) == v.typeof = "object" /\ ~IsNull(v) /\ ~IsArray(v)

(***************************************************************************)
(* Schema (index.ts 16-21).  An optional member is a sequence of length 0  *)
(* (absent) or 1 (present).  properties holds its entries in the order in  *)
(* which they were declared.                                               *)
(***************************************************************************)
Absent == <<>>
Present(x) == <<x>>
IsPresent(opt) == Len(opt) = 1
The(opt) == opt[1]

mkSchema(t, req, props, items) ==
  [type |-> t, required |-> req, properties |-> props, items |-> items]
Bare(t) == mkSchema(t, Absent, Absent, Absent)
Entry(key, s) == [key |-> key, schema |-> s]

(***************************************************************************)
(* Object.entries(schema.properties): integer-like keys come first, in     *)
(* ascending numeric order, then the other keys in insertion order.        *)
(***************************************************************************)
IndexKeys == {"0", "1", "2"}
IndexValue(key) == CASE key = "0" -> 0 [] key = "1" -> 1 [] key = "2" -> 2

RECURSIVE SortedIndexEntries(_)
SortedIndexEntries(S) ==
  IF S = {} THEN <<>>
  ELSE LET e == CHOOSE x \in S : \A y \in S : IndexValue(x.key) <= IndexValue(y.key)
       IN  <<e>> \o SortedIndexEntries(S \ {e})

ObjectEntries(props) ==
  SortedIndexEntries({props[j] : j \in {j \in 1..Len(props) : props[j].key \in IndexKeys}})
    \o SelectSeq(props, LAMBDA e : e.key \notin IndexKeys)

(***************************************************************************)
(* ValidationError (index.ts 24-32) and what a call of validate ends in.   *)
(* reason is the constructor's first argument; message is what super()     *)
(* receives.                                                               *)
(***************************************************************************)
\* a ValidationError whose constructor passes the bare message to Error
ValidationError_NoPath(reason, path) ==
  [status |-> "throws", name |-> "ValidationError",
   message |-> reason, path |-> path, reason |-> reason]

ValidationError(reason, path) ==
  [status |-> "throws", name |-> "ValidationError",
   message |-> path \o ": " \o reason, path |-> path, reason |-> reason]
\* the plain Error thrown by getType: it has no path
PlainError(message) ==
  [status |-> "throws", name |-> "Error",
   message |-> message, path |-> "", reason |-> message]
Returned == [status |-> "returns", name |-> "", message |-> "", path |-> "", reason |-> ""]
Running  == [status |-> "running", name |-> "", message |-> "", path |-> "", reason |-> ""]

\* the message of index.ts 41 with its two types exchanged
ExpectedMessage_Swapped(schemaType, actualType) ==
  "Expected " \o actualType \o ", got " \o schemaType

ExpectedMessage(schemaType, actualType) ==
  "Expected " \o schemaType \o ", got " \o actualType
\* the message of index.ts 52 without the name of the key
MissingMessage_NoKey(key) == "Missing required property"

MissingMessage(key) == "Missing required property: " \o key

PropertyPath(path, key) == path \o "." \o key
\* the path of index.ts 70 with indices counted from 1
ItemPath_OneBased(path, i) == path \o "[" \o ToString(i + 1) \o "]"

ItemPath(path, i) == path \o "[" \o ToString(i) \o "]"

\* the guard of index.ts 47 as a test of the keywords alone
ObjectBranch_AnyKind(v, s) == IsPresent(s.required) \/ IsPresent(s.properties)

\* the guards of the two structural branches (index.ts 47 and 68)
ObjectBranch(v, s) == s.type = "object" /\ isObject(v)
\* the guard of index.ts 68 without its test of schema.items
ArrayBranch_NoItemsTest(v, s) == s.type = "array" /\ IsArray(v)
ArrayBranch(v, s) == s.type = "array" /\ IsArray(v) /\ IsPresent(s.items)

(***************************************************************************)
(* validate (index.ts 35-73) as a recursive operator: what the call        *)
(* validate(value, schema, path) returns or throws.                        *)
(***************************************************************************)
RECURSIVE validate(_, _, _)
RECURSIVE checkRequired(_, _, _, _)
RECURSIVE validateProperties(_, _, _, _)
RECURSIVE validateItems(_, _, _, _)

\* the loop of index.ts 50-54, from the k-th name of required on
checkRequired(value, required, k, path) ==
  IF k > Len(required) THEN Returned
  ELSE IF ~HasProperty(value, required[k])
       THEN ValidationError(MissingMessage(required[k]), path)
       ELSE checkRequired(value, required, k + 1, path)

\* the loop of index.ts 59-63, from the k-th entry on
validateProperties(value, entries, k, path) ==
  IF k > Len(entries) THEN Returned
  ELSE IF HasProperty(value, entries[k].key)
       THEN LET r == validate(GetProperty(value, entries[k].key), entries[k].schema,
                              PropertyPath(path, entries[k].key))
            IN  IF r.status = "throws" THEN r
                ELSE validateProperties(value, entries, k + 1, path)
       ELSE validateProperties(value, entries, k + 1, path)

\* the loop of index.ts 69-71, from index i on
validateItems(value, items, i, path) ==
  IF ~(i < Len(value.elems)) THEN Returned
  ELSE LET r == validate(value.elems[i + 1], items, ItemPath(path, i))
       IN  IF r.status = "throws" THEN r
           ELSE validateItems(value, items, i + 1, path)

\* index.ts 47-65 for a closed schema: a key of the value that properties
\* does not list is an error
validateObject_Closed(value, schema, path) ==
  LET listed == IF IsPresent(schema.properties)
                THEN {The(schema.properties)[j].key : j \in 1..Len(The(schema.properties))}
                ELSE {}
      req == IF IsPresent(schema.required)
             THEN checkRequired(value, The(schema.required), 1, path)
             ELSE Returned
  IN  IF req.status = "throws" THEN req
      ELSE IF \E n \in OwnKeysOf(value) : n \notin listed
           THEN ValidationError("Unexpected property", path)
           ELSE IF IsPresent(schema.properties)
                THEN validateProperties(value, ObjectEntries(The(schema.properties)), 1, path)
                ELSE Returned

\* index.ts 47-65
validateObject(value, schema, path) ==
  LET req == IF IsPresent(schema.required)
             THEN checkRequired(value, The(schema.required), 1, path)
             ELSE Returned
  IN  IF req.status = "throws" THEN req
      ELSE IF IsPresent(schema.properties)
           THEN validateProperties(value, ObjectEntries(The(schema.properties)), 1, path)
           ELSE Returned

validate(value, schema, path) ==
  LET actualType == getType(value)
  IN  IF actualType = Throws THEN PlainError(UnknownTypeMessage(value))
      ELSE IF actualType # schema.type
           THEN ValidationError(ExpectedMessage(schema.type, actualType), path)
           ELSE LET obj == IF ObjectBranch(value, schema)
                           THEN validateObject(value, schema, path)
                           ELSE Returned
                IN  IF obj.status = "throws" THEN obj
                    ELSE IF ArrayBranch(value, schema)
                         THEN validateItems(value, The(schema.items), 0, path)
                         ELSE Returned

(***************************************************************************)
(* The values and schemas the model validates.                             *)
(***************************************************************************)
\* property names: an ordinary name, an integer-like name, and a name that
\* every object inherits from Object.prototype
Names == {"a", "1", "toString"}
\* the names a value of the model may have as own keys
OwnKeys == {"a", "1"}

SeqsUpTo(S, n) == UNION {[1..k -> S] : k \in 0..n}
\* sequences without repetition
DistinctSeqsUpTo(S, n) ==
  {q \in SeqsUpTo(S, n) : \A i, j \in 1..Len(q) : i # j => q[i] # q[j]}

Primitives == {JNull, JString, JNumber, JBoolean}
InnerLeaves == {JNumber, JString}
\* the values that occur inside arrays and objects
InnerValues ==
  InnerLeaves
    \cup {mkArray(<<>>)} \cup {mkArray(<<x>>) : x \in InnerLeaves}
    \cup {mkObject(<<>>)} \cup {mkObject([k \in {"a"} |-> x]) : x \in InnerLeaves}
Values ==
  Primitives
    \cup {mkArray(es) : es \in SeqsUpTo(InnerValues, MaxLen)}
    \cup {mkObject(f) : f \in UNION {[D -> InnerValues] : D \in SUBSET OwnKeys}}

InnerLeafSchemas == {Bare("string"), Bare("number")}
InnerSchemas ==
  InnerLeafSchemas
    \cup {Bare("array"), Bare("object")}
    \cup {mkSchema("array", Absent, Absent, Present(s)) : s \in InnerLeafSchemas}
    \cup {mkSchema("object", Present(<<n>>), Absent, Absent) : n \in {"a", "toString"}}
    \cup {mkSchema("object", Absent, Present(<<Entry(n, s)>>), Absent) :
            n \in {"a", "toString"}, s \in InnerLeafSchemas}
RequiredOptions == {Absent} \cup {Present(r) : r \in DistinctSeqsUpTo(Names, MaxRequired)}
ShortRequiredOptions == {Absent} \cup {Present(<<n>>) : n \in Names}
PropertiesOptions ==
  {Present(<<>>)}
    \cup {Present(<<Entry(n, s)>>) : n \in Names, s \in InnerSchemas}
    \cup {Present(<<Entry(p[1], s1), Entry(p[2], s2)>>) :
            p \in {q \in Names \X Names : q[1] # q[2]},
            s1 \in InnerLeafSchemas, s2 \in InnerLeafSchemas}
\* Schemas that describe one value of the model: the value's type, every
\* own key required, and for every own key a bare schema of that key's type.
Orderings(S) ==
  {q \in DistinctSeqsUpTo(S, Cardinality(S)) : Len(q) = Cardinality(S)}
SelfSchemasOf(v) ==
  IF v.typeof = "object" /\ v.class = "Object"
  THEN {mkSchema("object", Present(r), Present(p), Absent) :
          r \in Orderings(OwnKeysOf(v)),
          p \in Orderings({Entry(n, Bare(getType(v.own[n]))) : n \in OwnKeysOf(v)})}
  ELSE {Bare(getType(v))}
SelfSchemas == UNION {SelfSchemasOf(v) : v \in Values}

Schemas ==
  {Bare(t) : t \in Types}
    \cup {mkSchema("array", Absent, Absent, Present(s)) : s \in InnerSchemas}
    \cup {mkSchema("object", r, Absent, Absent) : r \in RequiredOptions}
    \cup {mkSchema("object", r, p, Absent) : r \in ShortRequiredOptions, p \in PropertiesOptions}
    \cup SelfSchemas

(***************************************************************************)
(* validate (index.ts 35-73) as a machine.  stack holds one frame per      *)
(* active call of validate, the innermost last.  A frame holds the call's   *)
(* arguments, the statement it is at (pc), its loop counter (k), and loc:   *)
(* the accessors that lead from the root to the frame's value (loc records  *)
(* the descent; the code does not read it).                                 *)
(*   pc = "type"        at index.ts 37, before getType                      *)
(*   pc = "required"    in the loop of index.ts 50, at required[k]          *)
(*   pc = "properties"  in the loop of index.ts 59, at the k-th entry       *)
(*   pc = "items"       in the loop of index.ts 69, at i = k                *)
(*   pc = "return"      at index.ts 73                                      *)
(* outcome is what the top call ended in, thrownAt the loc of the frame    *)
(* that threw, trace the checks made so far.  cli is the state of the      *)
(* caller: the process that runs main (index.ts 106-141), or a caller that *)
(* uses validate as a library, as the tests do.  plugin is the state of    *)
(* the Zotero plugin of Bootstrap.res, a program of its own.               *)
(***************************************************************************)
VARIABLES value, schema, stack, outcome, thrownAt, trace, cli, plugin

vars == <<value, schema, stack, outcome, thrownAt, trace, cli, plugin>>

\* the plugin (Bootstrap.res) is not part of the process
NoPlugin ==
  [pc |-> "none", handler |-> "", handled |-> 0, scriptExists |-> FALSE, loaded |-> FALSE,
   imported |-> FALSE,
   id |-> "", version |-> "", rootURI |-> "", window |-> "", calls |-> <<>>]

\* nothing was thrown
NoError == [status |-> "none", name |-> "", message |-> "", path |-> "", reason |-> ""]

\* a caller that imports validate (index.ts 149) and is in its n-th call
Library(n) ==
  [pc |-> "library", calls |-> n, argc |-> 0, schemaFile |-> "json", dataFile |-> "json",
   caught |-> NoError, stdout |-> <<>>, stderr |-> <<>>, exitCode |-> 0]

PropAccess(key) == [kind |-> "prop", key |-> key, index |-> 0]
ItemAccess(i)   == [kind |-> "item", key |-> "", index |-> i]

Frame(v, s, path, loc) ==
  [value |-> v, schema |-> s, path |-> path, loc |-> loc, pc |-> "type", k |-> 0]

Event(ev, loc, key) == [ev |-> ev, loc |-> loc, key |-> key]

\* the top call: validate(data, schema), path defaulting to 'root'
RootPath == "root"

Init ==
  /\ plugin = NoPlugin
  /\ value \in Values
  /\ schema \in Schemas
  /\ stack = <<Frame(value, schema, RootPath, <<>>)>>
  /\ outcome = Running
  /\ thrownAt = <<>>
  /\ trace = <<>>
  /\ cli = Library(1)

Top == stack[Len(stack)]
At(pc) == Len(stack) > 0 /\ Top.pc = pc
SetTop(f) == [stack EXCEPT ![Len(stack)] = f]

\* a throw that is caught by the call it occurs in: the error is kept and
\* the call returns to its caller, which goes on
Throw_Caught(err) ==
  /\ outcome' = err
  /\ thrownAt' = Top.loc
  /\ stack' = SetTop([Top EXCEPT !.pc = "return"])

\* a throw leaves every active call: validate has no handler
Throw(err) ==
  /\ outcome' = err
  /\ thrownAt' = Top.loc
  /\ stack' = <<>>

\* where a call goes on after the object branch (index.ts 68)
AfterObject(v, s) == IF ArrayBranch(v, s) THEN "items" ELSE "return"
\* where a call goes on after the type check (index.ts 47)
AfterType(v, s) == IF ObjectBranch(v, s) THEN "required" ELSE AfterObject(v, s)

\* index.ts 37 with 85: getType throws
TypeThrows ==
  /\ At("type")
  /\ getType(Top.value) = Throws
  /\ trace' = Append(trace, Event("getType", Top.loc, ""))
  /\ Throw(PlainError(UnknownTypeMessage(Top.value)))
  /\ UNCHANGED <<value, schema, cli, plugin>>

\* a type check that comes after the first look-up of the required loop
TypeMismatch_AfterLookup ==
  /\ At("type")
  /\ getType(Top.value) # Throws
  /\ getType(Top.value) # Top.schema.type
  /\ trace' = IF IsPresent(Top.schema.required) /\ The(Top.schema.required) # <<>>
              THEN trace \o <<Event("in", Top.loc, The(Top.schema.required)[1]),
                              Event("getType", Top.loc, "")>>
              ELSE Append(trace, Event("getType", Top.loc, ""))
  /\ Throw(ValidationError(ExpectedMessage(Top.schema.type, getType(Top.value)), Top.path))
  /\ UNCHANGED <<value, schema, cli, plugin>>

\* index.ts 37-44: the types differ
TypeMismatch ==
  /\ At("type")
  /\ getType(Top.value) # Throws
  /\ getType(Top.value) # Top.schema.type
  /\ trace' = Append(trace, Event("getType", Top.loc, ""))
  /\ Throw(ValidationError(ExpectedMessage(Top.schema.type, getType(Top.value)), Top.path))
  /\ UNCHANGED <<value, schema, cli, plugin>>

\* a type check that also classifies the first element of an array
TypeOk_ClassifiesElement ==
  /\ At("type")
  /\ getType(Top.value) = Top.schema.type
  /\ trace' = IF IsArray(Top.value) /\ Top.value.elems # <<>>
              THEN trace \o <<Event("getType", Top.loc, ""),
                              Event("getType", Append(Top.loc, ItemAccess(0)), "")>>
              ELSE Append(trace, Event("getType", Top.loc, ""))
  /\ stack' = SetTop([Top EXCEPT !.pc = AfterType(Top.value, Top.schema), !.k = 0])
  /\ UNCHANGED <<value, schema, outcome, thrownAt, cli, plugin>>

\* index.ts 37-39, 47, 68: the types agree
TypeOk ==
  /\ At("type")
  /\ getType(Top.value) = Top.schema.type
  /\ trace' = Append(trace, Event("getType", Top.loc, ""))
  /\ stack' = SetTop([Top EXCEPT !.pc = AfterType(Top.value, Top.schema), !.k = 0])
  /\ UNCHANGED <<value, schema, outcome, thrownAt, cli, plugin>>

\* the name the loop of index.ts 50 is at
RequiredPending ==
  /\ At("required")
  /\ IsPresent(Top.schema.required)
  /\ Top.k < Len(The(Top.schema.required))
RequiredKey == The(Top.schema.required)[Top.k + 1]

\* index.ts 51-52
RequiredMissing ==
  /\ RequiredPending
  /\ ~HasProperty(Top.value, RequiredKey)
  /\ trace' = Append(trace, Event("in", Top.loc, RequiredKey))
  /\ Throw(ValidationError(MissingMessage(RequiredKey), Top.path))
  /\ UNCHANGED <<value, schema, cli, plugin>>

\* index.ts 50-51
RequiredPresent ==
  /\ RequiredPending
  /\ HasProperty(Top.value, RequiredKey)
  /\ trace' = Append(trace, Event("in", Top.loc, RequiredKey))
  /\ stack' = SetTop([Top EXCEPT !.k = @ + 1])
  /\ UNCHANGED <<value, schema, outcome, thrownAt, cli, plugin>>

\* index.ts 49-55: required is absent or exhausted
RequiredDone ==
  /\ At("required")
  /\ ~RequiredPending
  /\ stack' = SetTop([Top EXCEPT !.pc = "properties", !.k = 0])
  /\ UNCHANGED <<value, schema, outcome, thrownAt, trace, cli, plugin>>

\* the entry the loop of index.ts 59 is at
PropertyPending ==
  /\ At("properties")
  /\ IsPresent(Top.schema.properties)
  /\ Top.k < Len(The(Top.schema.properties))
PropertyEntry == ObjectEntries(The(Top.schema.properties))[Top.k + 1]

\* index.ts 60-61: the call of validate on value[key]
PropertyDescend ==
  /\ PropertyPending
  /\ HasProperty(Top.value, PropertyEntry.key)
  /\ trace' = Append(trace, Event("in", Top.loc, PropertyEntry.key))
  /\ stack' = Append(SetTop([Top EXCEPT !.k = @ + 1]),
                     Frame(GetProperty(Top.value, PropertyEntry.key),
                           PropertyEntry.schema,
                           PropertyPath(Top.path, PropertyEntry.key),
                           Append(Top.loc, PropAccess(PropertyEntry.key))))
  /\ UNCHANGED <<value, schema, outcome, thrownAt, cli, plugin>>

\* index.ts 60: the key is not in the value
PropertySkip ==
  /\ PropertyPending
  /\ ~HasProperty(Top.value, PropertyEntry.key)
  /\ trace' = Append(trace, Event("in", Top.loc, PropertyEntry.key))
  /\ stack' = SetTop([Top EXCEPT !.k = @ + 1])
  /\ UNCHANGED <<value, schema, outcome, thrownAt, cli, plugin>>

\* index.ts 58-65, 68: properties is absent or exhausted
PropertiesDone ==
  /\ At("properties")
  /\ ~PropertyPending
  /\ stack' = SetTop([Top EXCEPT !.pc = AfterObject(Top.value, Top.schema), !.k = 0])
  /\ UNCHANGED <<value, schema, outcome, thrownAt, trace, cli, plugin>>

\* index.ts 69-70 with the element taken by value.shift(): the array loses
\* the element that is visited
ItemDescend_Shift ==
  /\ At("items")
  /\ Top.k < Len(Top.value.elems)
  /\ stack' = Append(SetTop([Top EXCEPT !.k = @ + 1]),
                     Frame(Top.value.elems[Top.k + 1],
                           The(Top.schema.items),
                           ItemPath(Top.path, Top.k),
                           Append(Top.loc, ItemAccess(Top.k))))
  /\ value' = IF Len(stack) = 1 THEN mkArray(Tail(value.elems)) ELSE value
  /\ UNCHANGED <<schema, outcome, thrownAt, trace, cli, plugin>>

\* index.ts 69-70 in a loop that never increments i
ItemDescend_NoAdvance ==
  /\ At("items")
  /\ Top.k < Len(Top.value.elems)
  /\ stack' = Append(stack,
                     Frame(Top.value.elems[Top.k + 1],
                           The(Top.schema.items),
                           ItemPath(Top.path, Top.k),
                           Append(Top.loc, ItemAccess(Top.k))))
  /\ UNCHANGED <<value, schema, outcome, thrownAt, trace, cli, plugin>>

\* index.ts 69-70: the call of validate on value[i]
ItemDescend ==
  /\ At("items")
  /\ Top.k < Len(Top.value.elems)
  /\ stack' = Append(SetTop([Top EXCEPT !.k = @ + 1]),
                     Frame(Top.value.elems[Top.k + 1],
                           The(Top.schema.items),
                           ItemPath(Top.path, Top.k),
                           Append(Top.loc, ItemAccess(Top.k))))
  /\ UNCHANGED <<value, schema, outcome, thrownAt, trace, cli, plugin>>

\* index.ts 69: i < value.length is false
ItemsDone ==
  /\ At("items")
  /\ ~(Top.k < Len(Top.value.elems))
  /\ stack' = SetTop([Top EXCEPT !.pc = "return"])
  /\ UNCHANGED <<value, schema, outcome, thrownAt, trace, cli, plugin>>

\* index.ts 73: the call returns to its caller
Return ==
  /\ At("return")
  /\ stack' = SubSeq(stack, 1, Len(stack) - 1)
  /\ outcome' = IF Len(stack) = 1 THEN Returned ELSE outcome
  /\ UNCHANGED <<value, schema, thrownAt, trace, cli, plugin>>

Next ==
  \/ TypeThrows
  \/ TypeMismatch
  \/ TypeOk
  \/ RequiredMissing
  \/ RequiredPresent
  \/ RequiredDone
  \/ PropertyDescend
  \/ PropertySkip
  \/ PropertiesDone
  \/ ItemDescend
  \/ ItemsDone
  \/ Return

Spec == Init /\ [][Next]_vars

\* the top call has ended
Done == outcome.status # "running"

\* a call of validate runs on: JavaScript runs the statements of a call one
\* after the other and nothing else can hold them up
SpecFair == Init /\ [][Next]_vars /\ WF_vars(Next)

\* the machine and the operator are two readings of the same code: they end alike
MachineAgrees == Done => outcome = validate(value, schema, RootPath)

(***************************************************************************)
(* A caller that calls validate several times, one call after the other    *)
(* (as the tests do).  validate has no module-level state: a call starts   *)
(* from its arguments alone.                                               *)
(***************************************************************************)
\* the values and schemas of repeated calls and of the files main reads
SmallValues == InnerValues \cup {JNull}
SmallSchemas == InnerSchemas \cup {Bare("null")}

\* the path a new call starts from when the path of the last failure is
\* kept in a module-level variable
NextRootPath_Kept == IF outcome.path # "" THEN outcome.path ELSE RootPath

\* index.ts 35: the default value of the parameter path
NextRootPath == RootPath

\* index.ts 35: the caller's next call validate(value, schema)
NewCall ==
  /\ cli.pc = "library"
  /\ Done
  /\ cli.calls < MaxCalls
  /\ value' \in SmallValues
  /\ schema' \in SmallSchemas
  /\ stack' = <<Frame(value', schema', NextRootPath, <<>>)>>
  /\ outcome' = Running
  /\ thrownAt' = <<>>
  /\ trace' = <<>>
  /\ cli' = [cli EXCEPT !.calls = @ + 1]
  /\ UNCHANGED plugin

InitCalls ==
  /\ plugin = NoPlugin
  /\ value \in SmallValues
  /\ schema \in SmallSchemas
  /\ stack = <<Frame(value, schema, RootPath, <<>>)>>
  /\ outcome = Running
  /\ thrownAt = <<>>
  /\ trace = <<>>
  /\ cli = Library(1)

NextCalls ==
  \/ TypeThrows
  \/ TypeMismatch
  \/ TypeOk
  \/ RequiredMissing
  \/ RequiredPresent
  \/ RequiredDone
  \/ PropertyDescend
  \/ PropertySkip
  \/ PropertiesDone
  \/ ItemDescend
  \/ ItemsDone
  \/ Return
  \/ NewCall

SpecCalls == InitCalls /\ [][NextCalls]_vars

(***************************************************************************)
(* main (index.ts 106-141).  cli holds the position of main, the number of *)
(* arguments, what the two files are, the error its catch clause holds,    *)
(* the lines written to the two streams and the exit code.  value and      *)
(* schema are the documents the two files hold.  The marks main prints in  *)
(* front of its lines are written "[ok]" and "[x]" here.                   *)
(***************************************************************************)
\* a file is absent, holds text that is no JSON, or holds a JSON document
FileKinds == {"missing", "invalid", "json"}
SchemaFileName == "schema.json"
DataFileName == "data.json"

\* index.ts 110-112
UsageLines ==
  << "Usage: node dist/index.js <schema.json> <data.json>",
     "\nRSR-Compliant JSON Schema Validator",
     "Validates JSON data against a simple schema" >>
\* index.ts 129-130
SuccessLines(schemaFile) ==
  << "[ok] Validation successful!",
     "\nData conforms to schema from " \o schemaFile >>
\* index.ts 133
ValidationFailedLine(error) == "[x] Validation failed: " \o error.message
\* index.ts 136
ErrorLine(error) == "[x] Error: " \o error.message

\* readFileSync on a file that does not exist
ReadError(filename) ==
  PlainError("ENOENT: no such file or directory, open '" \o filename \o "'")
\* parseJSON (index.ts 94-103) on text that JSON.parse rejects
ParseError(filename) ==
  PlainError("Invalid JSON in " \o filename \o ": Unexpected token")

InitMain ==
  /\ plugin = NoPlugin
  /\ value \in SmallValues
  /\ schema \in SmallSchemas
  /\ stack = <<>>
  /\ outcome = Running
  /\ thrownAt = <<>>
  /\ trace = <<>>
  /\ \E n \in 0..MaxArgs, sf \in FileKinds, df \in FileKinds :
       /\ sf # "json" => schema = Bare("null")
       /\ df # "json" => value = JNull
       /\ n < 2 => (sf = "missing" /\ df = "missing")
       /\ cli = [pc |-> "start", calls |-> 0, argc |-> n, schemaFile |-> sf,
                 dataFile |-> df, caught |-> NoError, stdout |-> <<>>,
                 stderr |-> <<>>, exitCode |-> 0]

MainOnly == UNCHANGED <<value, schema, stack, outcome, thrownAt, trace, plugin>>

\* exit(code): the process ends
exit(code) == [cli EXCEPT !.pc = "exited", !.exitCode = code]

\* index.ts 109-114
MainUsage ==
  /\ cli.pc = "start"
  /\ cli.argc < 2
  /\ cli' = [exit(1) EXCEPT !.stderr = cli.stderr \o UsageLines]
  /\ MainOnly

\* index.ts 116
MainArgs ==
  /\ cli.pc = "start"
  /\ ~(cli.argc < 2)
  /\ cli' = [cli EXCEPT !.pc = "readSchema"]
  /\ MainOnly

\* index.ts 120
MainReadSchema ==
  /\ cli.pc = "readSchema"
  /\ cli' = IF cli.schemaFile = "missing"
            THEN [cli EXCEPT !.pc = "catch", !.caught = ReadError(SchemaFileName)]
            ELSE [cli EXCEPT !.pc = "readData"]
  /\ MainOnly

\* index.ts 121
MainReadData ==
  /\ cli.pc = "readData"
  /\ cli' = IF cli.dataFile = "missing"
            THEN [cli EXCEPT !.pc = "catch", !.caught = ReadError(DataFileName)]
            ELSE [cli EXCEPT !.pc = "parseSchema"]
  /\ MainOnly

\* a main that goes on when the schema file holds no JSON
MainParseSchema_GoesOn ==
  /\ cli.pc = "parseSchema"
  /\ cli' = [cli EXCEPT !.pc = "parseData"]
  /\ MainOnly

\* index.ts 123
MainParseSchema ==
  /\ cli.pc = "parseSchema"
  /\ cli' = IF cli.schemaFile = "invalid"
            THEN [cli EXCEPT !.pc = "catch", !.caught = ParseError(SchemaFileName)]
            ELSE [cli EXCEPT !.pc = "parseData"]
  /\ MainOnly

\* index.ts 124
MainParseData ==
  /\ cli.pc = "parseData"
  /\ cli' = IF cli.dataFile = "invalid"
            THEN [cli EXCEPT !.pc = "catch", !.caught = ParseError(DataFileName)]
            ELSE [cli EXCEPT !.pc = "validate"]
  /\ MainOnly

\* index.ts 127: the call validate(data, schema)
MainCallValidate ==
  /\ cli.pc = "validate"
  /\ stack' = <<Frame(value, schema, RootPath, <<>>)>>
  /\ cli' = [cli EXCEPT !.pc = "validating", !.calls = 1]
  /\ UNCHANGED <<value, schema, outcome, thrownAt, trace, plugin>>

\* index.ts 129-130: validate has returned
MainSuccess ==
  /\ cli.pc = "validating"
  /\ outcome.status = "returns"
  /\ cli' = [cli EXCEPT !.pc = "end",
                        !.stdout = cli.stdout \o SuccessLines(SchemaFileName)]
  /\ MainOnly

\* index.ts 131: validate has thrown
MainCatch ==
  /\ cli.pc = "validating"
  /\ outcome.status = "throws"
  /\ cli' = [cli EXCEPT !.pc = "catch", !.caught = outcome]
  /\ MainOnly

\* index.ts 132-134
MainCatchValidationError ==
  /\ cli.pc = "catch"
  /\ cli.caught.name = "ValidationError"
  /\ cli' = [exit(1) EXCEPT !.stderr = cli.stderr \o <<ValidationFailedLine(cli.caught)>>]
  /\ MainOnly

\* index.ts 135-137
MainCatchError ==
  /\ cli.pc = "catch"
  /\ cli.caught.name = "Error"
  /\ cli' = [exit(1) EXCEPT !.stderr = cli.stderr \o <<ErrorLine(cli.caught)>>]
  /\ MainOnly

NextMain ==
  \/ MainUsage
  \/ MainArgs
  \/ MainReadSchema
  \/ MainReadData
  \/ MainParseSchema
  \/ MainParseData
  \/ MainCallValidate
  \/ TypeThrows
  \/ TypeMismatch
  \/ TypeOk
  \/ RequiredMissing
  \/ RequiredPresent
  \/ RequiredDone
  \/ PropertyDescend
  \/ PropertySkip
  \/ PropertiesDone
  \/ ItemDescend
  \/ ItemsDone
  \/ Return
  \/ MainSuccess
  \/ MainCatch
  \/ MainCatchValidationError
  \/ MainCatchError

SpecMain == InitMain /\ [][NextMain]_vars

(***************************************************************************)
(* Schemas that carry keywords of another kind (the interface of index.ts  *)
(* 16-21 allows every keyword with every type): items on an object schema, *)
(* required and properties on an array schema, all three on a primitive    *)
(* schema, at every node of the schema.                                     *)
(***************************************************************************)
ForeignRequired == Present(<<"a">>)
ForeignProperties == Present(<<Entry("a", Bare("number"))>>)
ForeignItems == Present(Bare("string"))

RECURSIVE Decorate(_)
Decorate(s) ==
  CASE s.type = "object" ->
         mkSchema("object", s.required,
                  IF IsPresent(s.properties)
                  THEN Present([j \in 1..Len(The(s.properties)) |->
                                  Entry(The(s.properties)[j].key,
                                        Decorate(The(s.properties)[j].schema))])
                  ELSE Absent,
                  ForeignItems)
    [] s.type = "array" ->
         mkSchema("array", ForeignRequired, ForeignProperties,
                  IF IsPresent(s.items) THEN Present(Decorate(The(s.items))) ELSE Absent)
    [] OTHER -> mkSchema(s.type, ForeignRequired, ForeignProperties, ForeignItems)

ForeignSchemas == {Decorate(s) : s \in SmallSchemas \cup {Bare(t) : t \in Types}}
ForeignValues == SmallValues \cup Primitives \cup {mkArray(<<JString, JNumber>>)}

InitForeign ==
  /\ plugin = NoPlugin
  /\ value \in ForeignValues
  /\ schema \in ForeignSchemas
  /\ stack = <<Frame(value, schema, RootPath, <<>>)>>
  /\ outcome = Running
  /\ thrownAt = <<>>
  /\ trace = <<>>
  /\ cli = Library(1)

SpecForeign == InitForeign /\ [][Next]_vars

(***************************************************************************)
(* Values that hold something that is none of the six kinds (validate      *)
(* takes `unknown`, index.ts 35): a function as the value itself, under a  *)
(* key, or as an element.                                                  *)
(***************************************************************************)
UnsupportedValues ==
  { JFunction,
    mkObject([k \in {"a"} |-> JFunction]),
    mkObject([k \in {"a", "1"} |-> IF k = "a" THEN JString ELSE JFunction]),
    mkArray(<<JFunction>>),
    mkArray(<<JNumber, JFunction>>),
    mkArray(<<JFunction, JNumber>>) }

InitUnsupported ==
  /\ plugin = NoPlugin
  /\ value \in SmallValues \cup UnsupportedValues
  /\ schema \in SmallSchemas
  /\ stack = <<Frame(value, schema, RootPath, <<>>)>>
  /\ outcome = Running
  /\ thrownAt = <<>>
  /\ trace = <<>>
  /\ cli = Library(1)

SpecUnsupported == InitUnsupported /\ [][Next]_vars

(***************************************************************************)
(* The plugin bootstrap (Bootstrap.res, part_003 87-125).  Zotero's loader *)
(* calls the handlers; a handler runs its statements one after the other.  *)
(* plugin.handler is the handler called last, plugin.pc the statement it   *)
(* is at ("idle" between handlers), plugin.calls the calls that handler    *)
(* has made on Zotero, Services and MakeItRed, each with its arguments.    *)
(* makeItRed is bound to the MakeItRed of "./MakeItRed.js" (part_003 54):  *)
(* either the binding is resolved when Bootstrap.res is loaded             *)
(* (plugin.imported), or it is the global that the sub-script defines, and *)
(* then a use of it before the script is loaded throws.                    *)
(***************************************************************************)
PluginIds == {"make-it-red@example.com", "other@example.com"}
PluginVersions == {"2.0", "2.1"}
RootURIs == {"file:///plugin/", "jar:file:///p.xpi!/"}
Windows == {"w1", "w2"}

Call(fn, a1, a2, a3) == [fn |-> fn, a1 |-> a1, a2 |-> a2, a3 |-> a3]
\* log (part_003 83-85)
LogCall(msg) == Call("Zotero.debug", "Make It Red: " \o msg, "", "")
\* part_003 94-98
RegisterCall(rootURI) ==
  Call("Zotero.PreferencePanes.register", "make-it-red@example.com",
       rootURI \o "preferences.xhtml", rootURI \o "preferences.js")
\* part_003 101
LoadCall(rootURI) == Call("Services.scriptloader.loadSubScript", rootURI \o "MakeItRed.js", "", "")
\* part_003 103
InitCall(id, version, rootURI) == Call("MakeItRed.init", id, version, rootURI)

InitPlugin ==
  /\ value = JNull
  /\ schema = Bare("null")
  /\ stack = <<>>
  /\ outcome = Running
  /\ thrownAt = <<>>
  /\ trace = <<>>
  /\ cli = Library(0)
  /\ \E e \in BOOLEAN, i \in BOOLEAN :
       plugin = [NoPlugin EXCEPT !.pc = "idle", !.scriptExists = e, !.imported = i]

PluginOnly == UNCHANGED <<value, schema, stack, outcome, thrownAt, trace, cli>>

\* the loader calls a handler
Enter(handler, pc, firstCalls) ==
  [plugin EXCEPT !.handler = handler, !.pc = pc, !.handled = @ + 1, !.calls = firstCalls]
\* the handler makes a call and goes on at pc
Step(call, pc) == [plugin EXCEPT !.calls = Append(@, call), !.pc = pc]
\* makeItRed can be used
MakeItRedBound == plugin.imported \/ plugin.loaded
\* a call on makeItRed: it throws when the binding is not defined
MakeItRedStep(call, pc) ==
  IF MakeItRedBound THEN Step(call, pc) ELSE [plugin EXCEPT !.pc = "idle"]
LoaderCalls == plugin.pc = "idle" /\ plugin.handled < MaxHandled

\* part_003 87-89
Install ==
  /\ LoaderCalls
  /\ plugin' = Enter("install", "idle", <<LogCall("Installed 2.0 (Rescript)")>>)
  /\ PluginOnly

\* part_003 91-92
Startup ==
  /\ LoaderCalls
  /\ \E id \in PluginIds, version \in PluginVersions, rootURI \in RootURIs :
       plugin' = [Enter("startup", "register", <<LogCall("Starting 2.0 (Rescript)")>>)
                    EXCEPT !.id = id, !.version = version, !.rootURI = rootURI]
  /\ PluginOnly

\* part_003 94-98
StartupRegister ==
  /\ plugin.pc = "register"
  /\ plugin' = Step(RegisterCall(plugin.rootURI), "load")
  /\ PluginOnly

\* the sub-script loaded after init was called
StartupLoad_InitFirst ==
  /\ plugin.pc = "load"
  /\ plugin' = [plugin EXCEPT
                  !.calls = @ \o <<InitCall(plugin.id, plugin.version, plugin.rootURI),
                                   LoadCall(plugin.rootURI)>>,
                  !.loaded = TRUE,
                  !.pc = "addToAllWindows"]
  /\ PluginOnly

\* part_003 101: loadSubScript throws when the script does not exist
StartupLoad ==
  /\ plugin.pc = "load"
  /\ plugin' = IF plugin.scriptExists
               THEN [Step(LoadCall(plugin.rootURI), "init") EXCEPT !.loaded = TRUE]
               ELSE Step(LoadCall(plugin.rootURI), "idle")
  /\ PluginOnly

\* part_003 103
StartupInit ==
  /\ plugin.pc = "init"
  /\ plugin' = MakeItRedStep(InitCall(plugin.id, plugin.version, plugin.rootURI),
                             "addToAllWindows")
  /\ PluginOnly

\* part_003 104
StartupAddToAllWindows ==
  /\ plugin.pc = "addToAllWindows"
  /\ plugin' = MakeItRedStep(Call("MakeItRed.addToAllWindows", "", "", ""), "main")
  /\ PluginOnly

\* part_003 107
StartupMain ==
  /\ plugin.pc = "main"
  /\ plugin' = MakeItRedStep(Call("MakeItRed.main", "", "", ""), "idle")
  /\ PluginOnly

\* part_003 110-112
OnMainWindowLoad ==
  /\ LoaderCalls
  /\ \E w \in Windows :
       plugin' = IF MakeItRedBound
                 THEN [Enter("onMainWindowLoad", "idle", <<Call("MakeItRed.addToWindow", w, "", "")>>)
                         EXCEPT !.window = w]
                 ELSE [Enter("onMainWindowLoad", "idle", <<>>) EXCEPT !.window = w]
  /\ PluginOnly

\* part_003 114-116
OnMainWindowUnload ==
  /\ LoaderCalls
  /\ \E w \in Windows :
       plugin' = IF MakeItRedBound
                 THEN [Enter("onMainWindowUnload", "idle",
                             <<Call("MakeItRed.removeFromWindow", w, "", "")>>)
                         EXCEPT !.window = w]
                 ELSE [Enter("onMainWindowUnload", "idle", <<>>) EXCEPT !.window = w]
  /\ PluginOnly

\* part_003 118-119
Shutdown ==
  /\ LoaderCalls
  /\ plugin' = Enter("shutdown", "removeFromAllWindows",
                     <<LogCall("Shutting down 2.0 (Rescript)")>>)
  /\ PluginOnly

\* part_003 120
ShutdownRemove ==
  /\ plugin.pc = "removeFromAllWindows"
  /\ plugin' = MakeItRedStep(Call("MakeItRed.removeFromAllWindows", "", "", ""), "idle")
  /\ PluginOnly

\* part_003 123-125
Uninstall ==
  /\ LoaderCalls
  /\ plugin' = Enter("uninstall", "idle", <<LogCall("Uninstalled 2.0 (Rescript)")>>)
  /\ PluginOnly

NextPlugin ==
  \/ Install
  \/ Startup
  \/ StartupRegister
  \/ StartupLoad
  \/ StartupInit
  \/ StartupAddToAllWindows
  \/ StartupMain
  \/ OnMainWindowLoad
  \/ OnMainWindowUnload
  \/ Shutdown
  \/ ShutdownRemove
  \/ Uninstall

SpecPlugin == InitPlugin /\ [][NextPlugin]_vars

(***************************************************************************)
(* Documents whose property names contain '.', '[' and ']': index.ts 61    *)
(* and 70 put the name and the index into the path as they are.            *)
(***************************************************************************)
PunctuatedValues ==
  {mkObject([k \in {"a.b", "a"} |-> IF k = "a.b" THEN x ELSE mkObject([m \in {"b"} |-> y])]) :
     x \in InnerLeaves, y \in InnerLeaves}
    \cup {mkObject([k \in {"a[0]", "a"} |-> IF k = "a[0]" THEN x ELSE mkArray(<<y>>)]) :
            x \in InnerLeaves, y \in InnerLeaves}

PunctuatedSchemas ==
  LET dotted(s) == Entry("a.b", s)
      nested(s) == Entry("a", mkSchema("object", Absent, Present(<<Entry("b", s)>>), Absent))
      bracketed(s) == Entry("a[0]", s)
      element(s) == Entry("a", mkSchema("array", Absent, Absent, Present(s)))
  IN  UNION {{mkSchema("object", Absent, Present(<<dotted(s), nested(u)>>), Absent),
              mkSchema("object", Absent, Present(<<nested(s), dotted(u)>>), Absent),
              mkSchema("object", Absent, Present(<<bracketed(s), element(u)>>), Absent),
              mkSchema("object", Absent, Present(<<element(s), bracketed(u)>>), Absent)} :
               s \in InnerLeafSchemas, u \in InnerLeafSchemas}

InitPaths ==
  /\ plugin = NoPlugin
  /\ \/ value \in PunctuatedValues /\ schema \in PunctuatedSchemas
     \/ value \in SmallValues /\ schema \in SmallSchemas
  /\ stack = <<Frame(value, schema, RootPath, <<>>)>>
  /\ outcome = Running
  /\ thrownAt = <<>>
  /\ trace = <<>>
  /\ cli = Library(1)

SpecPaths == InitPaths /\ [][Next]_vars

(***************************************************************************)
(* Reference notions the properties below are stated with.  They are       *)
(* written from the words of the specification, not from the code.         *)
(***************************************************************************)
\* the values of the JSON value space
IsJson(v) == v.typeof # "function"

\* the kind of a JSON value
KindOf(v) ==
  CASE v.typeof = "object" /\ v.class = "null"   -> "null"
    [] v.typeof = "object" /\ v.class = "Array"  -> "array"
    [] v.typeof = "object" /\ v.class = "Object" -> "object"
    [] OTHER -> v.typeof

\* the keys of an object value: the names it maps
KeysOf(v) == DOMAIN v.own

SeqToSet(q) == {q[j] : j \in 1..Len(q)}
RequiredNames(s) == IF IsPresent(s.required) THEN SeqToSet(The(s.required)) ELSE {}
PropertyEntries(s) == IF IsPresent(s.properties) THEN SeqToSet(The(s.properties)) ELSE {}
PropertyNames(s) == {e.key : e \in PropertyEntries(s)}

\* the recursive reference definition of conformance
RECURSIVE Conforms(_, _)
Conforms(v, s) ==
  /\ KindOf(v) = s.type
  /\ s.type = "object" =>
       /\ \A n \in RequiredNames(s) : n \in KeysOf(v)
       /\ \A e \in PropertyEntries(s) : e.key \in KeysOf(v) => Conforms(v.own[e.key], e.schema)
  /\ (s.type = "array" /\ IsPresent(s.items)) =>
       \A j \in 1..Len(v.elems) : Conforms(v.elems[j], The(s.items))

\* the accessor chain of a location, written as a path
RECURSIVE RenderPath(_)
RenderPath(loc) ==
  IF loc = <<>> THEN "root"
  ELSE LET a == loc[Len(loc)]
       IN  RenderPath(SubSeq(loc, 1, Len(loc) - 1)) \o
             (IF a.kind = "prop" THEN "." \o a.key ELSE "[" \o ToString(a.index) \o "]")

\* the first name of required, in declaration order, that is no key of v
MissingNames(v, s) == {n \in RequiredNames(s) : n \notin KeysOf(v)}
FirstMissing(v, s) ==
  LET r == The(s.required)
      j == CHOOSE j \in 1..Len(r) : r[j] \notin KeysOf(v) /\ \A h \in 1..(j - 1) : r[h] \in KeysOf(v)
  IN  r[j]

Succeeded == outcome.status = "returns"
Failed == outcome.status = "throws"
FailedWith(reason, path) ==
  /\ Failed
  /\ outcome.name = "ValidationError"
  /\ outcome.reason = reason
  /\ outcome.path = path

(***************************************************************************)
(* C1.  validate(v, s) succeeds exactly when v conforms to s under the     *)
(* recursive reference definition (kind equality, required names are keys  *)
(* of the value, property sub-schemas on the keys present, item sub-schema *)
(* on every element).                                                      *)
(***************************************************************************)
C1_SucceedsIffConforms == Done => (Succeeded <=> Conforms(value, schema))

(***************************************************************************)
(* C2.  At every node whose value's kind differs from the schema's kind,   *)
(* the call fails with a ValidationError whose message contains            *)
(* "Expected <s.kind>, got <kind of v>" and whose path is the path of that *)
(* node ("root" at the top call).                                          *)
(***************************************************************************)
C2_KindMismatch ==
  [][(At("type") /\ IsJson(Top.value) /\ KindOf(Top.value) # Top.schema.type)
       => /\ outcome'.status = "throws"
          /\ outcome'.name = "ValidationError"
          /\ outcome'.message =
               RenderPath(Top.loc) \o ": Expected " \o Top.schema.type
                 \o ", got " \o KindOf(Top.value)
          /\ outcome'.path = RenderPath(Top.loc)
          /\ (Top.loc = <<>> => outcome'.path = "root")]_vars

\* a kind mismatch was reported below the root
C2_Witness ==
  /\ Failed
  /\ outcome.name = "ValidationError"
  /\ outcome.reason = "Expected string, got number"
  /\ outcome.path = "root.a"

(***************************************************************************)
(* C3.  For an object schema and an object value, if some name of          *)
(* required is not a key of the value, validate fails with "Missing        *)
(* required property: <name>" at the object's path, <name> being the first *)
(* such name in the declaration order of required, whether or not the name *)
(* appears in properties.                                                  *)
(***************************************************************************)
C3_FirstMissingReported ==
  (Done /\ schema.type = "object" /\ KindOf(value) = "object" /\ MissingNames(value, schema) # {})
    => FailedWith("Missing required property: " \o FirstMissing(value, schema), "root")

(***************************************************************************)
(* C4.  The kind check precedes the required-key check, which precedes the *)
(* property recursion: when an object value lacks a required key and also  *)
(* holds a property whose value violates its sub-schema, the failure       *)
(* reported is "Missing required property" at the object's own path.       *)
(***************************************************************************)
C4_RequiredBeforeProperties ==
  (/\ Done
   /\ schema.type = "object" /\ KindOf(value) = "object"
   /\ MissingNames(value, schema) # {}
   /\ \E e \in PropertyEntries(schema) :
        e.key \in KeysOf(value) /\ ~Conforms(value.own[e.key], e.schema))
    => \E n \in MissingNames(value, schema) :
         FailedWith("Missing required property: " \o n, "root")

(***************************************************************************)
(* C5.  For an array schema with items and an array value with a           *)
(* non-conforming element, the failure lies at or under "<path>[i]", i     *)
(* being the smallest index whose element does not conform to items, and   *)
(* no element with a greater index is checked.                             *)
(***************************************************************************)
NonConformingIndices(v, s) ==
  {i \in 0..(Len(v.elems) - 1) : ~Conforms(v.elems[i + 1], The(s.items))}
SmallestNonConforming(v, s) ==
  CHOOSE i \in NonConformingIndices(v, s) : \A j \in NonConformingIndices(v, s) : i <= j

C5_FirstFailingIndex ==
  (/\ Done
   /\ schema.type = "array" /\ KindOf(value) = "array" /\ IsPresent(schema.items)
   /\ NonConformingIndices(value, schema) # {})
    => LET i == SmallestNonConforming(value, schema)
       IN  /\ Failed
           /\ outcome.name = "ValidationError"
           /\ Len(thrownAt) >= 1
           /\ thrownAt[1] = ItemAccess(i)
           /\ \A j \in 1..Len(trace) :
                Len(trace[j].loc) >= 1 => trace[j].loc[1].index <= i

(***************************************************************************)
(* C6.  The path of a ValidationError is the accessor chain of the node    *)
(* where the failing check ran: "root" at the top call, then ".<name>" for *)
(* each property and "[<i>]" for each 0-based index, in descent order.     *)
(***************************************************************************)
C6_PathIsAccessorChain ==
  (Failed /\ outcome.name = "ValidationError") => outcome.path = RenderPath(thrownAt)

\* a failure two levels below the root, through a property and an index
C6_Witness ==
  /\ Failed
  /\ outcome.name = "ValidationError"
  /\ thrownAt = <<PropAccess("a"), ItemAccess(0)>>
  /\ outcome.path = "root.a[0]"

(***************************************************************************)
(* C7.  Object schemas are open: adding to an object value a key that the  *)
(* object schema lists neither in properties nor in required, with any     *)
(* value, leaves the outcome of validate unchanged.                        *)
(***************************************************************************)
AddKey(v, key, x) ==
  mkObject([n \in OwnKeysOf(v) \cup {key} |-> IF n = key THEN x ELSE v.own[n]])
UnlistedNewKeys(v, s) == (Names \ KeysOf(v)) \ (PropertyNames(s) \cup RequiredNames(s))

C7_OpenSchema ==
  (Done /\ schema.type = "object" /\ KindOf(value) = "object")
    => \A key \in UnlistedNewKeys(value, schema) : \A x \in InnerValues :
         validate(AddKey(value, key, x), schema, RootPath) = outcome

\* a successful validation of an object to which a key can be added
C7_Witness ==
  /\ Succeeded
  /\ schema.type = "object"
  /\ IsPresent(schema.properties)
  /\ KeysOf(value) = {"a"}
  /\ "1" \in UnlistedNewKeys(value, schema)

(***************************************************************************)
(* C8.  A call ends in one of two terminal states, success or failure with *)
(* one error.  Once a failure is raised nothing further is checked, the    *)
(* failure leaves every enclosing call as it was raised, and no second     *)
(* error follows.                                                          *)
(***************************************************************************)
C8_Terminal ==
  /\ [](/\ outcome.status \in {"running", "returns", "throws"}
        /\ Done <=> stack = <<>>
        /\ ~Done => ENABLED Next)
  /\ [][Done => (outcome' = outcome /\ trace' = trace /\ stack' = stack)]_vars
  /\ [][(~Done /\ Failed') => stack' = <<>>]_vars

\* a failure raised two calls deep, with an element left unchecked
C8_Witness ==
  /\ Failed
  /\ Len(thrownAt) = 1
  /\ thrownAt[1] = ItemAccess(0)
  /\ KindOf(value) = "array"
  /\ Len(value.elems) = 2

(***************************************************************************)
(* C9.  Every ValidationError carries a path and a message, the message    *)
(* (the constructor's first argument) being "Expected <kind>, got <kind>"  *)
(* or "Missing required property: <name>".                                 *)
(***************************************************************************)
ExpectedForms == {"Expected " \o t \o ", got " \o u : t \in Types, u \in Types}
MissingForms == {"Missing required property: " \o n : n \in Names}

C9_MessageForms ==
  (Failed /\ outcome.name = "ValidationError")
    => /\ outcome.path # ""
       /\ outcome.reason \in ExpectedForms \cup MissingForms
       /\ outcome.message = outcome.path \o ": " \o outcome.reason

\* a ValidationError of the second form
C9_Witness ==
  /\ Failed
  /\ outcome.name = "ValidationError"
  /\ outcome.reason = "Missing required property: a"

(***************************************************************************)
(* C10.  The schema derived from a value (its kind; for an object, every   *)
(* key required and every key mapped to a schema of the key's own kind)    *)
(* validates that value.                                                   *)
(***************************************************************************)
\* s is a schema derived from v
IsDerived(s, v) ==
  /\ s.type = KindOf(v)
  /\ s.items = Absent
  /\ KindOf(v) # "object" => s = Bare(KindOf(v))
  /\ KindOf(v) = "object" =>
       /\ IsPresent(s.required) /\ RequiredNames(s) = KeysOf(v)
       /\ IsPresent(s.properties) /\ PropertyNames(s) = KeysOf(v)
       /\ \A e \in PropertyEntries(s) : e.schema = Bare(KindOf(v.own[e.key]))

C10_RoundTrip == (Done /\ IsDerived(schema, value)) => Succeeded

\* the derived schema of an object with two keys was validated
C10_Witness ==
  /\ Succeeded
  /\ IsDerived(schema, value)
  /\ KindOf(value) = "object"
  /\ KeysOf(value) = {"a", "1"}

(***************************************************************************)
(* C11.  validate never mutates its inputs: in every step of a call, and   *)
(* so after it, successful or failing, the value and the schema are what   *)
(* they were before the call, and the top call still holds them.           *)
(***************************************************************************)
C11_InputsUnchanged ==
  /\ [][value' = value /\ schema' = schema]_vars
  /\ [](Len(stack) >= 1 => (stack[1].value = value /\ stack[1].schema = schema))

\* a call that visited both elements of an array has returned
C11_Witness ==
  /\ Succeeded
  /\ KindOf(value) = "array"
  /\ Len(value.elems) = 2
  /\ IsPresent(schema.items)

(***************************************************************************)
(* C12.  getType maps every JSON value to exactly one of the six kinds, in *)
(* first-match-wins order: null gives null, a sequence gives array (never  *)
(* object), a non-sequence mapping gives object, text gives string, a      *)
(* number gives number, a boolean gives boolean.                           *)
(***************************************************************************)
C12_GetTypeIsKind ==
  \A i \in 1..Len(stack) :
    IsJson(stack[i].value) =>
      /\ getType(stack[i].value) \in Types
      /\ getType(stack[i].value) = KindOf(stack[i].value)
      /\ stack[i].value = JNull => getType(stack[i].value) = "null"
      /\ (stack[i].value.typeof = "object" /\ stack[i].value.class = "Array")
           => getType(stack[i].value) = "array"

\* the type check of a nested array has passed
C12_Witness ==
  /\ Len(stack) = 2
  /\ Top.pc = "return"
  /\ KindOf(Top.value) = "array"

(***************************************************************************)
(* C13.  The validator holds no state across calls and is deterministic:   *)
(* in any sequence of calls, a call's outcome (success, or the failure's   *)
(* message and path) is a function of that call's value and schema alone,  *)
(* whatever the earlier calls were, and a call starts from nothing but its *)
(* arguments.                                                              *)
(***************************************************************************)
C13_NoStateAcrossCalls ==
  /\ [](Done => outcome = validate(value, schema, "root"))
  /\ [][(Done /\ ~Done')
          => /\ stack' = <<[value |-> value', schema |-> schema', path |-> "root",
                            loc |-> <<>>, pc |-> "type", k |-> 0]>>
             /\ trace' = <<>>
             /\ thrownAt' = <<>>]_vars

\* a second call has failed below the root
C13_Witness ==
  /\ cli.calls = 2
  /\ Failed
  /\ outcome.path = "root.a"

(***************************************************************************)
(* C14.  In main, a validation failure ends the process with a non-zero    *)
(* exit code and writes to the error stream one line that contains         *)
(* "<path>: <message>" of the ValidationError; nothing is written to the   *)
(* output stream.                                                          *)
(***************************************************************************)
C14_CliReportsFailure ==
  (outcome.name = "ValidationError") =>
    /\ cli.pc \in {"validating", "catch", "exited"}
    /\ cli.stdout = <<>>
    /\ cli.pc = "exited" =>
         /\ cli.exitCode # 0
         /\ cli.stderr =
              <<"[x] Validation failed: " \o RenderPath(thrownAt) \o ": " \o outcome.reason>>

\* main has exited on a failure below the root
C14_Witness ==
  /\ cli.pc = "exited"
  /\ outcome.name = "ValidationError"
  /\ outcome.path = "root.a"

(***************************************************************************)
(* C15.  On a kind mismatch at a node, validate fails before any           *)
(* structural inspection of that node: the type discrimination is the last *)
(* thing done, no key was looked up at the node, and nothing below the     *)
(* node was visited, even when the value of the wrong kind would satisfy   *)
(* the schema's substructure.                                              *)
(***************************************************************************)
IsProperPrefix(l, m) == Len(l) < Len(m) /\ SubSeq(m, 1, Len(l)) = l

C15_MismatchBeforeStructure ==
  (Failed /\ outcome.name = "ValidationError" /\ outcome.reason \in ExpectedForms) =>
    /\ trace # <<>>
    /\ trace[Len(trace)] = [ev |-> "getType", loc |-> thrownAt, key |-> ""]
    /\ \A i \in 1..Len(trace) :
         /\ ~(trace[i].ev = "in" /\ trace[i].loc = thrownAt)
         /\ ~IsProperPrefix(thrownAt, trace[i].loc)
    /\ stack = <<>>

\* an array with elements fails against an object schema that requires a
\* name and constrains a property
C15_Witness ==
  /\ FailedWith("Expected object, got array", "root")
  /\ Len(value.elems) = 2
  /\ IsPresent(schema.required) /\ The(schema.required) # <<>>
  /\ IsPresent(schema.properties) /\ The(schema.properties) # <<>>

(***************************************************************************)
(* C16.  For an object schema with several entries in properties, the      *)
(* sub-schemas are enforced in the declaration order of schema.properties: *)
(* the reported failure comes from the first entry, in that order, whose   *)
(* name is a key of the value and whose value does not conform, and no     *)
(* sibling property after the failing one is checked.                      *)
(***************************************************************************)
\* the entries, by their place in the declaration, that name a key of v whose
\* value does not conform
FailingEntries(v, s) ==
  LET p == The(s.properties)
  IN  {j \in 1..Len(p) : p[j].key \in KeysOf(v) /\ ~Conforms(v.own[p[j].key], p[j].schema)}

C16_DeclarationOrder ==
  (/\ Done
   /\ KindOf(value) = "object"
   /\ schema.type = "object"
   /\ IsPresent(schema.properties)
   /\ MissingNames(value, schema) = {}
   /\ FailingEntries(value, schema) # {})
  => LET p == The(schema.properties)
         first == CHOOSE j \in FailingEntries(value, schema) :
                    \A h \in FailingEntries(value, schema) : j <= h
     IN  /\ Failed
         /\ thrownAt # <<>>
         /\ thrownAt[1] = [kind |-> "prop", key |-> p[first].key, index |-> 0]
         /\ \A i \in 1..Len(trace) :
              trace[i].loc # <<>> =>
                trace[i].loc[1].key \notin {p[j].key : j \in (first + 1)..Len(p)}

(***************************************************************************)
(* C17.  A name listed in schema.properties but not a key of the value is  *)
(* skipped: its sub-schema is never applied and, unless the name is also   *)
(* in schema.required, its absence is never an error; a sub-schema is      *)
(* enforced only for names both listed in properties and present in the    *)
(* value.                                                                  *)
(***************************************************************************)
C17_AbsentPropertySkipped ==
  (KindOf(value) = "object" /\ schema.type = "object") =>
    LET enforced == PropertyNames(schema) \cap KeysOf(value)
    IN  /\ \A i \in 1..Len(stack) :
             stack[i].loc # <<>> => stack[i].loc[1].key \in enforced
        /\ \A i \in 1..Len(trace) :
             trace[i].loc # <<>> => trace[i].loc[1].key \in enforced
        /\ (Failed /\ thrownAt # <<>>) => thrownAt[1].key \in enforced
        /\ (Failed /\ thrownAt = <<>>) =>
             \E n \in RequiredNames(schema) : outcome.reason = "Missing required property: " \o n

(***************************************************************************)
(* C18.  For an array schema without items, every array value validates,   *)
(* whatever its length and its elements: the elements are never inspected  *)
(* (the only thing done is the type discrimination of the array itself).   *)
(***************************************************************************)
C18_ArrayWithoutItems ==
  (schema.type = "array" /\ ~IsPresent(schema.items) /\ KindOf(value) = "array") =>
    /\ ~Failed
    /\ stack = <<>> => Succeeded
    /\ stack # <<>> => (Len(stack) = 1 /\ stack[1].pc \in {"type", "return"})
    /\ \A i \in 1..Len(trace) : trace[i] = [ev |-> "getType", loc |-> <<>>, key |-> ""]

\* an array of two elements of different kinds has been accepted
C18_Witness ==
  /\ Succeeded
  /\ schema.type = "array" /\ ~IsPresent(schema.items)
  /\ KindOf(value) = "array"
  /\ Len(value.elems) = 2
  /\ KindOf(value.elems[1]) # KindOf(value.elems[2])

(***************************************************************************)
(* C19.  Schema keywords that do not belong to the node's kind have no     *)
(* effect: for a primitive kind the outcome is decided by kind equality    *)
(* alone; required and properties are ignored unless the kind is object,   *)
(* items is ignored unless the kind is array, so at most one of the        *)
(* property branch and the array branch executes at any node.              *)
(***************************************************************************)
\* the schema without the keywords of other kinds, at every node
RECURSIVE Strip(_)
Strip(s) ==
  [type |-> s.type,
   required |-> IF s.type = "object" THEN s.required ELSE <<>>,
   properties |-> IF s.type = "object" /\ s.properties # <<>>
                  THEN <<[j \in 1..Len(s.properties[1]) |->
                            [key |-> s.properties[1][j].key,
                             schema |-> Strip(s.properties[1][j].schema)]]>>
                  ELSE <<>>,
   items |-> IF s.type = "array" /\ s.items # <<>> THEN <<Strip(s.items[1])>> ELSE <<>>]

C19_ForeignKeywordsIgnored ==
  /\ \A i \in 1..Len(stack) :
       /\ stack[i].pc \in {"required", "properties"} =>
            (stack[i].schema.type = "object" /\ KindOf(stack[i].value) = "object")
       /\ stack[i].pc = "items" =>
            (stack[i].schema.type = "array" /\ KindOf(stack[i].value) = "array")
  /\ \A i, j \in 1..Len(trace) :
       ~(trace[i].ev = "in" /\ IsProperPrefix(trace[i].loc, trace[j].loc)
           /\ trace[j].loc[Len(trace[i].loc) + 1].kind = "item")
  /\ (Done /\ schema.type \in {"string", "number", "boolean", "null"}) =>
       /\ Succeeded <=> KindOf(value) = schema.type
       /\ trace = <<[ev |-> "getType", loc |-> <<>>, key |-> ""]>>
  /\ Done => outcome = validate(value, Strip(schema), "root")

\* a string was accepted by a string schema that carries required,
\* properties and items
C19_Witness ==
  /\ Succeeded
  /\ schema.type = "string"
  /\ schema.required # <<>> /\ schema.properties # <<>> /\ schema.items # <<>>

(***************************************************************************)
(* C20.  A value that matches none of the six kinds makes the type         *)
(* discriminator fail with an error of another kind than ValidationError,  *)
(* one that carries no path; for values made only of the six JSON kinds    *)
(* this failure is unreachable.                                            *)
(***************************************************************************)
\* v is made of the six JSON kinds only
RECURSIVE OnlyJson(_)
OnlyJson(v) ==
  /\ IsJson(v)
  /\ KindOf(v) = "array" => \A j \in 1..Len(v.elems) : OnlyJson(v.elems[j])
  /\ KindOf(v) = "object" => \A n \in KeysOf(v) : OnlyJson(v.own[n])

C20_UnsupportedKindUnreachable ==
  /\ \A i \in 1..Len(stack) :
       (~IsJson(stack[i].value) /\ stack[i].pc = "type") => getType(stack[i].value) = "throws"
  /\ (Failed /\ outcome.name # "ValidationError") =>
       (outcome.name = "Error" /\ outcome.path = "")
  /\ OnlyJson(value) => ~(Failed /\ outcome.name # "ValidationError")

(***************************************************************************)
(* C21.  validate terminates on every finite value and finite schema tree: *)
(* each call either completes successfully or raises, and the number of    *)
(* node checks is finite: no location is classified twice, and each        *)
(* recursive call is on a sub-schema of its caller's schema and on what    *)
(* value[key] or value[i] of its caller's value is.                        *)
(***************************************************************************)
\* the height of a schema tree
RECURSIVE SchemaHeight(_)
SchemaHeight(s) ==
  LET subs == (IF s.properties # <<>>
               THEN {s.properties[1][j].schema : j \in 1..Len(s.properties[1])} ELSE {})
                \cup (IF s.items # <<>> THEN {s.items[1]} ELSE {})
      hs == {SchemaHeight(u) : u \in subs}
  IN  IF hs = {} THEN 0 ELSE 1 + (CHOOSE h \in hs : \A g \in hs : g <= h)

\* the height of a value; what is inherited from the prototype lies below
\* every value that has it
RECURSIVE ValueHeight(_)
ValueHeight(v) ==
  IF ~IsJson(v) THEN 0
  ELSE LET subs == CASE KindOf(v) = "array" -> {v.elems[j] : j \in 1..Len(v.elems)}
                     [] KindOf(v) = "object" -> {v.own[n] : n \in KeysOf(v)}
                     [] OTHER -> {}
           hs == {ValueHeight(u) : u \in subs}
       IN  IF hs = {} THEN 1 ELSE 1 + (CHOOSE h \in hs : \A g \in hs : g <= h)

C21_StrictDescent ==
  /\ \A i \in 1..(Len(stack) - 1) :
       /\ SchemaHeight(stack[i + 1].schema) < SchemaHeight(stack[i].schema)
       /\ ValueHeight(stack[i + 1].value) < ValueHeight(stack[i].value)
  /\ \A i, j \in 1..Len(trace) :
       (i < j /\ trace[i].ev = "getType") => trace[j] # trace[i]

ChildrenOf(v) ==
  CASE KindOf(v) = "array" -> {v.elems[j] : j \in 1..Len(v.elems)}
    [] KindOf(v) = "object" -> {v.own[n] : n \in KeysOf(v)}
    [] OTHER -> {}

\* the nesting depth of a JSON value: 0 for a value without children
RECURSIVE NestingDepth(_)
NestingDepth(v) ==
  LET ds == {NestingDepth(u) : u \in ChildrenOf(v)}
  IN  IF ds = {} THEN 0 ELSE 1 + (CHOOSE d \in ds : \A e \in ds : e <= d)

C22_DepthBounded ==
  /\ Len(stack) <= 1 + SchemaHeight(schema)
  /\ Len(stack) <= 1 + NestingDepth(value)
  /\ \A i \in 1..(Len(stack) - 1) :
       /\ stack[i + 1].value \in ChildrenOf(stack[i].value)
       /\ SchemaHeight(stack[i + 1].schema) < SchemaHeight(stack[i].schema)

(***************************************************************************)
(* C23.  isObject(v) is true exactly for non-null, non-array object        *)
(* values, that is exactly when getType(v) is 'object'; hence once the     *)
(* kind check has passed, the isObject and Array.isArray guards never      *)
(* suppress the object branch or the array branch.                         *)
(***************************************************************************)
C23_GuardsAgreeWithKind ==
  \A i \in 1..Len(stack) :
    LET v == stack[i].value
        s == stack[i].schema
    IN  /\ isObject(v) <=> (v.typeof = "object" /\ v.class # "null" /\ v.class # "Array")
        /\ isObject(v) <=> (getType(v) = "object")
        /\ stack[i].pc # "type" =>
             /\ s.type = "object" => (isObject(v) /\ ObjectBranch(v, s))
             /\ s.type = "array" => (v.typeof = "object" /\ v.class = "Array")
             /\ (s.type = "array" /\ s.items # <<>>) => ArrayBranch(v, s)
             /\ (s.type = "object" /\ s.required # <<>> /\ s.required[1] # <<>>
                   /\ stack[i].pc = "return") =>
                  \E j \in 1..Len(trace) :
                    trace[j].ev = "in" /\ trace[j].loc = stack[i].loc
             /\ (s.type = "array" /\ s.items # <<>> /\ v.elems # <<>>
                   /\ stack[i].pc = "return") =>
                  \E j \in 1..Len(trace) :
                    trace[j].loc = Append(stack[i].loc, [kind |-> "item", key |-> "", index |-> 0])

\* an object inside an array has passed the kind check, and both branches
\* were entered: the array's at the root, the object's at the element
C23_Witness ==
  /\ Len(stack) = 2
  /\ stack[1].pc = "items"
  /\ stack[2].pc = "return"
  /\ KindOf(stack[2].value) = "object"
  /\ stack[2].schema.required # <<>>

(***************************************************************************)
(* C24.  The required-key check tests the presence of the key only, never  *)
(* the key's value: an object whose required key is present with value     *)
(* null, or with any value of any kind, passes the required check, and the *)
(* value's kind is constrained only if the key is also listed in           *)
(* properties.                                                             *)
(***************************************************************************)
\* the values a key can be given
Replacements == {JNull, JString, JNumber, JBoolean, mkArray(<<>>), mkObject(<<>>)}
\* v with x under the key n
WithKey(v, n, x) ==
  [v EXCEPT !.own = [m \in DOMAIN v.own \cup {n} |-> IF m = n THEN x ELSE v.own[m]]]

C24_RequiredTestsPresenceOnly ==
  (Done /\ KindOf(value) = "object" /\ schema.type = "object") =>
    \A n \in RequiredNames(schema) \cap KeysOf(value) :
      /\ ~FailedWith("Missing required property: " \o n, "root")
      /\ \A x \in Replacements :
           LET r == validate(WithKey(value, n, x), schema, "root")
           IN  /\ ~(r.reason = "Missing required property: " \o n /\ r.path = "root")
               /\ n \notin PropertyNames(schema) => r = outcome

\* an object passed with a required key that properties does not list
C24_Witness ==
  /\ Succeeded
  /\ KindOf(value) = "object"
  /\ "a" \in RequiredNames(schema) \cap KeysOf(value)
  /\ "a" \notin PropertyNames(schema)
  /\ schema.properties # <<>>

(***************************************************************************)
(* C25.  Values at positions the schema does not constrain are never       *)
(* passed to the type discriminator: values under keys absent from         *)
(* properties, elements of an array whose schema has no items, and any     *)
(* node after the first failure are never classified, so a value of none   *)
(* of the six kinds at such a position never makes validate fail.          *)
(***************************************************************************)
\* the schema s has a sub-schema for the position loc
RECURSIVE Constrains(_, _)
Constrains(s, loc) ==
  IF loc = <<>> THEN TRUE
  ELSE IF loc[1].kind = "prop"
       THEN /\ s.type = "object"
            /\ \E e \in PropertyEntries(s) : e.key = loc[1].key /\ Constrains(e.schema, Tail(loc))
       ELSE /\ s.type = "array"
            /\ s.items # <<>>
            /\ Constrains(s.items[1], Tail(loc))

\* the position l is an element that comes after the position m or after an
\* array element above m
AfterInArray(l, m) ==
  \E h \in 1..Len(l) :
    /\ h <= Len(m)
    /\ SubSeq(l, 1, h - 1) = SubSeq(m, 1, h - 1)
    /\ l[h].kind = "item" /\ m[h].kind = "item"
    /\ l[h].index > m[h].index

C25_UnconstrainedNeverClassified ==
  /\ \A i \in 1..Len(trace) : Constrains(schema, trace[i].loc)
  /\ \A i \in 1..Len(stack) : Constrains(schema, stack[i].loc)
  /\ Failed =>
       /\ Constrains(schema, thrownAt)
       /\ trace[Len(trace)].loc = thrownAt
       /\ \A i \in 1..Len(trace) : ~AfterInArray(trace[i].loc, thrownAt)
  /\ (Failed /\ outcome.name = "Error") =>
       trace[Len(trace)] = [ev |-> "getType", loc |-> thrownAt, key |-> ""]

\* an array that holds a function was accepted by a schema without items
C25_Witness ==
  /\ Succeeded
  /\ KindOf(value) = "array"
  /\ \E j \in 1..Len(value.elems) : ~IsJson(value.elems[j])

(***************************************************************************)
(* C26.  The path string identifies the failing location unambiguously:    *)
(* two failures at different locations of a document (different chains of  *)
(* property names and indices from the root) never produce the same path   *)
(* string, including when property names contain '.', '[' or ']'.          *)
(***************************************************************************)
\* the locations of a document: the chains of accessors from its root
RECURSIVE LocationsOf(_)
LocationsOf(v) ==
  {<<>>}
    \cup (IF KindOf(v) = "object"
          THEN UNION {{<<[kind |-> "prop", key |-> n, index |-> 0]>> \o l :
                         l \in LocationsOf(v.own[n])} : n \in KeysOf(v)}
          ELSE {})
    \cup (IF KindOf(v) = "array"
          THEN UNION {{<<[kind |-> "item", key |-> "", index |-> j - 1]>> \o l :
                         l \in LocationsOf(v.elems[j])} : j \in 1..Len(v.elems)}
          ELSE {})

C26_PathIdentifiesLocation ==
  (Failed /\ outcome.name = "ValidationError") =>
    \A l \in LocationsOf(value) : RenderPath(l) = outcome.path => l = thrownAt

(***************************************************************************)
(* C27.  Weakening a schema never turns success into failure: if           *)
(* validate(v, s) succeeds, then validate(v, s') succeeds for every schema *)
(* s' obtained from s by removing names from required, removing entries    *)
(* from properties, or removing items, at any depth.                       *)
(***************************************************************************)
\* the sequences obtained from q by removing elements
RECURSIVE SubSequences(_)
SubSequences(q) ==
  IF q = <<>> THEN {<<>>}
  ELSE LET rest == SubSequences(Tail(q))
       IN  rest \cup {<<Head(q)>> \o r : r \in rest}

\* the schemas obtained from s by removals at any depth (s itself included)
RECURSIVE Weakenings(_)
RECURSIVE WeakenedEntries(_)
WeakenedEntries(es) ==
  IF es = <<>> THEN {<<>>}
  ELSE LET rest == WeakenedEntries(Tail(es))
       IN  rest \cup {<<[key |-> Head(es).key, schema |-> w]>> \o r :
                        w \in Weakenings(Head(es).schema), r \in rest}
Weakenings(s) ==
  {[type |-> s.type, required |-> r, properties |-> p, items |-> i] :
     r \in (IF s.required = <<>> THEN {<<>>}
            ELSE {<<>>} \cup {<<q>> : q \in SubSequences(s.required[1])}),
     p \in (IF s.properties = <<>> THEN {<<>>}
            ELSE {<<>>} \cup {<<q>> : q \in WeakenedEntries(s.properties[1])}),
     i \in (IF s.items = <<>> THEN {<<>>}
            ELSE {<<>>} \cup {<<w>> : w \in Weakenings(s.items[1])})}

C27_WeakeningKeepsSuccess ==
  (Succeeded /\ validate(value, schema, "root").status = "returns") =>
    \A w \in Weakenings(schema) : validate(value, w, "root").status = "returns"

\* a value passed a schema with two required names and two properties
C27_Witness ==
  /\ Succeeded
  /\ schema.required # <<>> /\ Len(schema.required[1]) = 2
  /\ schema.properties # <<>> /\ Len(schema.properties[1]) = 2

(***************************************************************************)
(* C28.  In main, validate is invoked only after both the schema file and  *)
(* the data file have been read and parsed successfully; if fewer than two *)
(* arguments are given, or reading or parsing either file fails, validate  *)
(* is never called and the process exits with code 1; the process finishes *)
(* without a non-zero exit only when validate returned successfully.       *)
(***************************************************************************)
\* validate has been called
ValidateCalled == cli.calls > 0 \/ stack # <<>> \/ trace # <<>> \/ Done
\* main is over
MainOver == cli.pc \in {"end", "exited"}
\* main waits for a call of validate that is not there
MainStuck ==
  /\ cli.pc = "validating"
  /\ stack = <<>>
  /\ ~Done

C28_ValidateAfterParsing ==
  /\ ValidateCalled =>
       /\ cli.argc >= 2
       /\ cli.schemaFile = "json" /\ cli.dataFile = "json"
       /\ cli.pc \in {"validating", "catch", "end", "exited"}
  /\ (cli.argc < 2 \/ cli.schemaFile # "json" \/ cli.dataFile # "json") =>
       /\ ~ValidateCalled
       /\ cli.stdout = <<>>
       /\ cli.pc # "end"
       /\ cli.pc = "exited" => cli.exitCode = 1
  /\ cli.pc = "exited" => (cli.exitCode = 1 /\ cli.stderr # <<>>)
  /\ (MainOver /\ cli.exitCode = 0) => (cli.pc = "end" /\ Succeeded)
  /\ cli.pc = "end" => (Succeeded /\ cli.exitCode = 0)
  /\ ~MainOver => cli.exitCode = 0 /\ cli.stdout = <<>> /\ cli.stderr = <<>>
  /\ ~MainStuck

\* main has exited because the data file holds no JSON
C28_Witness ==
  /\ cli.pc = "exited"
  /\ cli.schemaFile = "json"
  /\ cli.dataFile = "invalid"
  /\ cli.stderr = <<"[x] Error: Invalid JSON in data.json: Unexpected token">>

(***************************************************************************)
(* C29.  The plugin bootstrap's startup performs its steps in a fixed      *)
(* order: register the preference pane, load the MakeItRed.js sub-script,  *)
(* call init with the add-on's id, version and rootURI, call               *)
(* addToAllWindows, then call main; init is never called before the        *)
(* sub-script is loaded and main never before addToAllWindows, while       *)
(* shutdown only calls removeFromAllWindows and install and uninstall only *)
(* log.                                                                    *)
(***************************************************************************)
\* what a complete startup calls, in order
StartupOrder(id, version, rootURI) ==
  << [fn |-> "Zotero.debug", a1 |-> "Make It Red: Starting 2.0 (Rescript)", a2 |-> "", a3 |-> ""],
     [fn |-> "Zotero.PreferencePanes.register", a1 |-> "make-it-red@example.com",
      a2 |-> rootURI \o "preferences.xhtml", a3 |-> rootURI \o "preferences.js"],
     [fn |-> "Services.scriptloader.loadSubScript", a1 |-> rootURI \o "MakeItRed.js",
      a2 |-> "", a3 |-> ""],
     [fn |-> "MakeItRed.init", a1 |-> id, a2 |-> version, a3 |-> rootURI],
     [fn |-> "MakeItRed.addToAllWindows", a1 |-> "", a2 |-> "", a3 |-> ""],
     [fn |-> "MakeItRed.main", a1 |-> "", a2 |-> "", a3 |-> ""] >>

IsPrefix(p, q) == Len(p) <= Len(q) /\ SubSeq(q, 1, Len(p)) = p
\* the names of the calls made on MakeItRed
MakeItRedCalls == {plugin.calls[j].fn : j \in {h \in 1..Len(plugin.calls) : plugin.calls[h].fn
                                                   \notin {"Zotero.debug"}}}

C29_StartupOrder ==
  /\ plugin.handler = "startup" =>
       /\ IsPrefix(plugin.calls, StartupOrder(plugin.id, plugin.version, plugin.rootURI))
       /\ (plugin.pc = "idle" /\ plugin.scriptExists) => Len(plugin.calls) = 6
       /\ (plugin.pc = "idle" /\ ~plugin.scriptExists) => Len(plugin.calls) = 3
       /\ \A j \in 1..Len(plugin.calls) :
            /\ plugin.calls[j].fn = "MakeItRed.init" =>
                 \E h \in 1..(j - 1) : plugin.calls[h].fn = "Services.scriptloader.loadSubScript"
            /\ plugin.calls[j].fn = "MakeItRed.main" =>
                 \E h \in 1..(j - 1) : plugin.calls[h].fn = "MakeItRed.addToAllWindows"
  /\ plugin.handler = "shutdown" =>
       /\ MakeItRedCalls \subseteq {"MakeItRed.removeFromAllWindows"}
       /\ Len(plugin.calls) <= 2
       /\ (plugin.pc = "idle" /\ (plugin.loaded \/ plugin.imported)) =>
            MakeItRedCalls = {"MakeItRed.removeFromAllWindows"}
  /\ plugin.handler \in {"install", "uninstall"} =>
       /\ plugin.pc = "idle"
       /\ Len(plugin.calls) = 1
       /\ plugin.calls[1].fn = "Zotero.debug"

\* a startup has run to its end, then the loader called shutdown
C29_Witness ==
  /\ plugin.handler = "shutdown"
  /\ plugin.pc = "idle"
  /\ plugin.loaded
  /\ plugin.handled = 2
  /\ plugin.id = "other@example.com"
  /\ Len(plugin.calls) = 2

====
